---------------------------- MODULE Spec2Model ----------------------------
(***************************************************************************)
(* A model of the OSKAR pairwise kernels:                                  *)
(*   - the 1D baseline (visibility) index of the correlator,               *)
(*   - oskar_correlate_gaussian_omp_f/_d (OpenMP, schedule(dynamic, 1)),   *)
(*   - oskar_evaluate_average_scalar_cross_power_beam_omp_f/_d.            *)
(* Floating-point values are modelled by exact integers (fixed point for   *)
(* the weights), so every statement below is about exact arithmetic in the *)
(* finite range; the beam normalisation is an exact rational that keeps    *)
(* the IEEE outcomes of a division by zero (inf, nan).                     *)
(***************************************************************************)
EXTENDS Integers, Sequences, FiniteSets, TLC

(***************************************************************************)
(* Bounds of the model.                                                    *)
(***************************************************************************)
MaxIxStations == 9

(***************************************************************************)
(* C integer arithmetic.                                                   *)
(***************************************************************************)
\* C's int division truncates toward zero (b > 0 here).
CDiv(a, b) == IF a >= 0 THEN a \div b ELSE -((-a) \div b)

\* The number of unordered station pairs, num_stations*(num_stations-1)/2.
NumBaselines(num_stations) == CDiv(num_stations * (num_stations - 1), 2)

\* A plausible slip: the triangular term taken of q+1 instead of q-1.
VisIndex_Mutant(num_stations, station_q, station_p) ==
    station_q * (num_stations - 1) - CDiv((station_q + 1) * station_q, 2)
        + station_p - station_q - 1

\* "Determine 1D visibility index."
VisIndex(num_stations, station_q, station_p) ==
    station_q * (num_stations - 1) - CDiv((station_q - 1) * station_q, 2)
        + station_p - station_q - 1

(***************************************************************************)
(* Values.  float/double are exact integers; float2/double2 are records    *)
(* [x, y]; float4c/double4c are records [a, b, c, d] of those.  Weights    *)
(* (the sinc and exp factors) and therefore the visibilities are fixed     *)
(* point: FxOne stands for 1.0.                                            *)
(***************************************************************************)
FxOne == 16

\* M_PI in the model's integer arithmetic.
M_PI == 3

Abs(x) == IF x < 0 THEN -x ELSE x

\* v / 2^n, rounded down, and v * 2^n.
RECURSIVE Halve(_, _)
Halve(v, n) == IF n <= 0 \/ v = 0 THEN v ELSE Halve(v \div 2, n - 1)

RECURSIVE Double(_, _)
Double(v, n) == IF n <= 0 THEN v ELSE Double(2 * v, n - 1)

Cx(re, im) == [x |-> re, y |-> im]
CZero == Cx(0, 0)
CAdd(z, w) == Cx(z.x + w.x, z.y + w.y)
CMul(z, w) == Cx(z.x * w.x - z.y * w.y, z.x * w.y + z.y * w.x)
CConj(z) == Cx(z.x, -z.y)
CScale(r, z) == Cx(r * z.x, r * z.y)

Mat(ma, mb, mc, md) == [a |-> ma, b |-> mb, c |-> mc, d |-> md]
MatZero == Mat(CZero, CZero, CZero, CZero)
MatIdentity == Mat(Cx(1, 0), CZero, CZero, Cx(1, 0))
MatAdd(m, n) == Mat(CAdd(m.a, n.a), CAdd(m.b, n.b), CAdd(m.c, n.c), CAdd(m.d, n.d))
MatScale(r, m) == Mat(CScale(r, m.a), CScale(r, m.b), CScale(r, m.c), CScale(r, m.d))
\* Row-major 2x2 product: [a b; c d].
MatMul(m, n) ==
    Mat(CAdd(CMul(m.a, n.a), CMul(m.b, n.c)), CAdd(CMul(m.a, n.b), CMul(m.b, n.d)),
        CAdd(CMul(m.c, n.a), CMul(m.d, n.c)), CAdd(CMul(m.c, n.b), CMul(m.d, n.d)))
\* Conjugate (Hermitian) transpose.
MatHerm(m) == Mat(CConj(m.a), CConj(m.c), CConj(m.b), CConj(m.d))

\* The eight scalar members of a float4c: a.x, a.y, b.x, b.y, c.x, c.y, d.x,
\* d.y.
Comp(m, k) ==
    CASE k = 1 -> m.a.x [] k = 2 -> m.a.y [] k = 3 -> m.b.x [] k = 4 -> m.b.y
      [] k = 5 -> m.c.x [] k = 6 -> m.c.y [] k = 7 -> m.d.x [] OTHER -> m.d.y
MatOfComps(v) ==
    Mat(Cx(v[1], v[2]), Cx(v[3], v[4]), Cx(v[5], v[6]), Cx(v[7], v[8]))
\* oskar_sinc_f/_d: 1 exactly at 0, even, falling off with |x|.
Sinc(x) == IF x = 0 THEN FxOne ELSE FxOne \div (1 + Abs(x))

\* expf/exp: 1 exactly at 0, increasing.
Exp(x) ==
    IF x = 0 THEN FxOne
    ELSE IF x < 0 THEN Halve(FxOne, -x) ELSE Double(FxOne, x)

\* A plausible slip: r1 += r2.
FxMul_Mutant(r1, r2) == r1 + r2

\* The product of two weights (r1 *= r2), rounded to the fixed-point grid.
FxMul(r1, r2) == (r1 * r2) \div FxOne

\* The source brightness (coherency) matrix of Stokes I, Q, U, V.
Brightness(sI, sQ, sU, sV) ==
    Mat(Cx(sI + sQ, 0), Cx(sU, sV), Cx(sU, -sV), Cx(sI - sQ, 0))

\* The contribution of one source to one baseline: J_p . B . J_q^H times the
\* weight.
SourceTerm(sI, sQ, sU, sV, jp, jq, weight) ==
    MatScale(weight, MatMul(MatMul(jp, Brightness(sI, sQ, sU, sV)), MatHerm(jq)))

\* Single precision keeps FloatBits significant bits (24 in the build); a
\* double holds every value of the runs exactly.
FloatBits == 12

\* The spacing of the single-precision values around a magnitude.
RECURSIVE UlpOf(_, _)
UlpOf(magnitude, step) ==
    IF magnitude < (2 ^ FloatBits) * step THEN step ELSE UlpOf(magnitude, 2 * step)

\* The single-precision value nearest to x, ties to the even significand.
RoundF(x) ==
    LET step == UlpOf(Abs(x), 1)
        quot == Abs(x) \div step
        rest == Abs(x) % step
        up   == 2 * rest > step \/ (2 * rest = step /\ quot % 2 = 1)
        mag  == (IF up THEN quot + 1 ELSE quot) * step
    IN  IF x < 0 THEN -mag ELSE mag

MatRound(m) == MatOfComps([k \in 1..8 |-> RoundF(Comp(m, k))])

\* One compensated (Kahan) addition of term to sum with the running
\* compensation guard, each operation rounded: <<new sum, new guard>>.
KahanAdd(sum, guard, term) ==
    LET yy == RoundF(term - guard)
        tt == RoundF(sum + yy)
    IN  <<tt, RoundF(RoundF(tt - sum) - yy)>>

(***************************************************************************)
(* State.                                                                  *)
(***************************************************************************)
VARIABLES
    ix_num_stations,  \* index walk: the num_stations argument
    ix_q,             \* index walk: station_q of the outer loop
    ix_p,             \* index walk: station_p of the inner loop
    ix_out,           \* index walk: the indices i produced so far, in loop order
    world,            \* the caller's data: stations, sources, scalars
    todo,             \* the caller's remaining correlator calls
    mem,              \* the caller's visibility buffers, by buffer id
    cor_pc,           \* "idle" between calls, "run" inside the parallel region
    args,             \* the arguments of the current (or last) correlator call
    next_q,           \* the next outer iteration the dynamic schedule hands out
    thr,              \* per thread: position and the private variables
    mem0,             \* history: the buffers as they were when the call began
    v_loads,          \* history: per slot, loads of vis[slot] in this call
    v_stores,         \* history: per slot, stores to vis[slot] in this call
    v_iters,          \* history: per slot, the outer iterations that touched it
    bm_pc,            \* beam kernel: "entry", "loop", "done", or "fpe" (trapped)
    bm_args,          \* beam kernel: num_sources, num_stations, jones
    bm_norm,          \* beam kernel: norm
    bm_it,            \* beam kernel: per iteration i, position and private variables
    beam,             \* beam kernel: the output array
    bm_divzero,       \* history: norm was computed with the divisor 0
    st_pc,            \* station override: "idle", "call" or "done" (top-level call)
    st_nodes,         \* station override: the stations, by node index
    st_s,             \* station override: the s argument of the top-level call (0: null)
    st_err,           \* station override: position_error_xy_m
    st_status,        \* station override: [null, val], the status argument and *status
    st_stack,         \* station override: the active calls, innermost last
    st_hist,          \* history: the stations and status at entry, writes, status changes
    wd_pc,            \* int-width walk: "idle", "walk" or "trap" (overflow trapped)
    wd_num_stations,  \* int-width walk: the num_stations argument
    wd_q,             \* int-width walk: station_q
    wd_p,             \* int-width walk: station_p
    wd_last,          \* int-width walk: the last index computation
    wd_div            \* int-width walk: the computation of the beam divisor

ixvars == <<ix_num_stations, ix_q, ix_p, ix_out>>

corvars == <<world, todo, mem, cor_pc, args, next_q, thr, mem0, v_loads, v_stores, v_iters>>

bmvars == <<bm_pc, bm_args, bm_norm, bm_it, beam, bm_divzero>>

stvars == <<st_pc, st_nodes, st_s, st_err, st_status, st_stack, st_hist>>

wdvars == <<wd_pc, wd_num_stations, wd_q, wd_p, wd_last, wd_div>>

vars == <<ix_num_stations, ix_q, ix_p, ix_out, world, todo, mem, cor_pc, args,
          next_q, thr, mem0, v_loads, v_stores, v_iters, bm_pc, bm_args, bm_norm,
          bm_it, beam, bm_divzero, st_pc, st_nodes, st_s, st_err, st_status,
          st_stack, st_hist, wd_pc, wd_num_stations, wd_q, wd_p, wd_last, wd_div>>

\* What the steps of one kernel leave alone: the state of the others.
nonixvars == <<corvars, bmvars, stvars, wdvars>>
noncorvars == <<ixvars, bmvars, stvars, wdvars>>
nonbmvars == <<ixvars, corvars, stvars, wdvars>>
nonstvars == <<ixvars, corvars, bmvars, wdvars>>
nonwdvars == <<ixvars, corvars, bmvars, stvars>>

(***************************************************************************)
(* Bounds of the correlator runs.                                          *)
(***************************************************************************)
MaxStations == 3
MaxSources == 2
MaxThreads == 2
RaceStations == 3
RaceSources == 1
\* Slots the caller's buffer holds beyond the num_stations*(num_stations-1)/2
\* visibilities.
VisPad == 1

Threads == 1..MaxThreads
BufIds == {1, 2}

(***************************************************************************)
(* The correlator's arguments and private variables.                       *)
(***************************************************************************)
NoArgs ==
    [kernel |-> "none", prec |-> "none", num_sources |-> 0, num_stations |-> 0,
     jones |-> <<>>, source_I |-> <<>>, source_Q |-> <<>>, source_U |-> <<>>,
     source_V |-> <<>>, source_l |-> <<>>, source_m |-> <<>>, source_a |-> <<>>,
     source_b |-> <<>>, source_c |-> <<>>, station_u |-> <<>>, station_v |-> <<>>,
     inv_wavelength |-> 0, frac_bandwidth |-> 0, vis |-> 0]

\* A thread outside the loop body: its private variables hold nothing.
Private(pc) ==
    [pc |-> pc, station_q |-> 0, station_p |-> 0, i |-> 0, sum |-> MatZero,
     guard |-> MatZero, uu |-> 0, vv |-> 0, uu2 |-> 0, vv2 |-> 0, uuvv |-> 0,
     old |-> MatZero, nacc |-> 0]

CorIdle ==
    /\ world = [scen |-> "none"]
    /\ todo = <<>>
    /\ mem = [b \in BufIds |-> <<>>]
    /\ cor_pc = "idle"
    /\ args = NoArgs
    /\ next_q = 0
    /\ thr = [t \in Threads |-> Private("off")]
    /\ mem0 = [b \in BufIds |-> <<>>]
    /\ v_loads = <<>>
    /\ v_stores = <<>>
    /\ v_iters = <<>>

BmIdle ==
    /\ bm_pc = "done"
    /\ bm_args = [num_sources |-> 0, num_stations |-> 0, jones |-> <<>>]
    /\ bm_norm = [kind |-> "nan"]
    /\ bm_it = <<>>
    /\ beam = <<>>
    /\ bm_divzero = FALSE

StIdle ==
    /\ st_pc = "idle"
    /\ st_nodes = <<>>
    /\ st_s = 0
    /\ st_err = 0
    /\ st_status = [null |-> TRUE, val |-> 0]
    /\ st_stack = <<>>
    /\ st_hist = [nodes |-> <<>>, status |-> 0, writes |-> <<>>, changes |-> <<>>]

\* A computation in int that has not been made.
NoComputation == [made |-> FALSE, steps |-> <<>>, value |-> 0]

WdIdle ==
    /\ wd_pc = "idle"
    /\ wd_num_stations = 0
    /\ wd_q = 0
    /\ wd_p = 1
    /\ wd_last = NoComputation
    /\ wd_div = NoComputation

(***************************************************************************)
(* The index walk: the two station loops of the correlator with only the   *)
(* index computation in the body.                                          *)
(***************************************************************************)
IxInit ==
    /\ ix_num_stations \in 0..MaxIxStations
    /\ ix_q = 0
    /\ ix_p = 1
    /\ ix_out = <<>>
    /\ CorIdle
    /\ BmIdle
    /\ StIdle
    /\ WdIdle

\* One pass of the inner loop body: compute i for (station_q, station_p).
IxBaseline ==
    /\ ix_q < ix_num_stations
    /\ ix_p < ix_num_stations
    /\ ix_out' = Append(ix_out, VisIndex(ix_num_stations, ix_q, ix_p))
    /\ ix_p' = ix_p + 1
    /\ UNCHANGED <<ix_num_stations, ix_q>>
    /\ UNCHANGED nonixvars

\* The inner loop ends: ++station_q, station_p = station_q + 1.
IxNextStation ==
    /\ ix_q < ix_num_stations
    /\ ix_p >= ix_num_stations
    /\ ix_q' = ix_q + 1
    /\ ix_p' = ix_q + 2
    /\ UNCHANGED <<ix_num_stations, ix_out>>
    /\ UNCHANGED nonixvars

IxDone == ix_q >= ix_num_stations

IxNext == IxBaseline \/ IxNextStation

SpecIndex == IxInit /\ [][IxNext]_vars

IxIdle ==
    /\ ix_num_stations = 0
    /\ ix_q = 0
    /\ ix_p = 1
    /\ ix_out = <<>>

(***************************************************************************)
(* Claims about the baseline index.                                        *)
(***************************************************************************)
Pairs(n) == {qp \in (0..(n - 1)) \X (0..(n - 1)) : qp[1] < qp[2]}

\* C1: for every num_stations >= 2 the index is a bijection from the pairs
\* 0 <= q < p < num_stations onto 0 .. num_stations*(num_stations-1)/2 - 1:
\* every index is in range, distinct pairs get distinct indices, every slot
\* is hit; and the indices the loops have produced are distinct and in range,
\* and are all the slots once the loops have ended.
C1_IndexBijection ==
    ix_num_stations >= 2 =>
        LET n  == ix_num_stations
            nb == NumBaselines(n)
        IN  /\ \A qp \in Pairs(n) : VisIndex(n, qp[1], qp[2]) \in 0..(nb - 1)
            /\ \A a \in Pairs(n) : \A b \in Pairs(n) :
                   VisIndex(n, a[1], a[2]) = VisIndex(n, b[1], b[2]) => a = b
            /\ \A s \in 0..(nb - 1) :
                   \E qp \in Pairs(n) : VisIndex(n, qp[1], qp[2]) = s
            /\ \A j \in 1..Len(ix_out) : ix_out[j] \in 0..(nb - 1)
            /\ \A j \in 1..Len(ix_out) : \A k \in 1..Len(ix_out) :
                   ix_out[j] = ix_out[k] => j = k
            /\ IxDone => {ix_out[j] : j \in 1..Len(ix_out)} = 0..(nb - 1)

C1_Witness ==
    /\ ix_num_stations = 5
    /\ IxDone
    /\ Len(ix_out) = 10

\* C3: for fixed q the indices of p = q+1 .. num_stations-1 are the
\* num_stations-1-q consecutive integers from the block's start, in increasing
\* p order; the block of q+1 starts right after the block of q; the blocks are
\* pairwise disjoint and their union is 0 .. num_stations*(num_stations-1)/2 - 1.
\* In loop order the indices produced are therefore 0, 1, 2, ...
BlockOf(n, q) == {VisIndex(n, q, p) : p \in (q + 1)..(n - 1)}

C3_ContiguousBlocks ==
    ix_num_stations >= 2 =>
        LET n  == ix_num_stations
            nb == NumBaselines(n)
        IN  /\ \A q \in 0..(n - 2) :
                   /\ \A p \in (q + 1)..(n - 1) :
                          VisIndex(n, q, p) = VisIndex(n, q, q + 1) + (p - q - 1)
                   /\ Cardinality(BlockOf(n, q)) = n - 1 - q
            /\ VisIndex(n, 0, 1) = 0
            /\ \A q \in 0..(n - 3) :
                   VisIndex(n, q + 1, q + 2) = VisIndex(n, q, n - 1) + 1
            /\ \A q1 \in 0..(n - 1) : \A q2 \in 0..(n - 1) :
                   q1 # q2 => BlockOf(n, q1) \cap BlockOf(n, q2) = {}
            /\ UNION {BlockOf(n, q) : q \in 0..(n - 1)} = 0..(nb - 1)
            /\ \A j \in 1..Len(ix_out) : ix_out[j] = j - 1

C3_Witness ==
    /\ ix_num_stations = 4
    /\ ix_q = 2
    /\ ix_p = 4
    /\ ix_out = <<0, 1, 2, 3, 4, 5>>

(***************************************************************************)
(* The caller: station coordinates, sources with their per-station Jones   *)
(* matrices, the two scalars, and zero-initialised or previously used      *)
(* visibility buffers.                                                     *)
(***************************************************************************)
\* Per-station Jones matrices of a source, by pattern.
JonesPat(jk, s) ==
    CASE jk = 0 -> MatIdentity
      [] jk = 1 -> Mat(Cx(1 + (s % 2), 0), Cx(0, 1), CZero, Cx(1, s % 2))
      [] OTHER  -> Mat(Cx(0, 1), Cx(s, 0), Cx(1, -1), Cx(2, 0))

\* The kinds of source the caller draws from: a unit point source at the
\* phase centre seen through identity Jones matrices, a polarised off-centre
\* point source, and two Gaussian sources (a*x^2 + 2*b*x*y + c*y^2 >= 0).
SourceKinds ==
    { [sI |-> 1, sQ |-> 0, sU |-> 0, sV |-> 0, l |-> 0, m |-> 0,
       a |-> 0, b |-> 0, c |-> 0, jk |-> 0],
      [sI |-> 2, sQ |-> 1, sU |-> 1, sV |-> -1, l |-> 1, m |-> 0,
       a |-> 0, b |-> 0, c |-> 0, jk |-> 1],
      [sI |-> 1, sQ |-> 0, sU |-> 0, sV |-> 1, l |-> 0, m |-> 1,
       a |-> 1, b |-> 0, c |-> 1, jk |-> 2],
      [sI |-> 3, sQ |-> -1, sU |-> 2, sV |-> 0, l |-> 1, m |-> -1,
       a |-> 1, b |-> 1, c |-> 1, jk |-> 1] }

\* Station layouts: east-west line, a curved arm, all stations co-located.
Layouts == {0, 1, 2}
LayoutU(id, s) == CASE id = 0 -> s [] id = 1 -> s * s [] OTHER -> 0
LayoutV(id, s) == CASE id = 0 -> 0 [] id = 1 -> -s [] OTHER -> 0

\* What a buffer holds before the first call.
FillOf(fill, slot) ==
    IF fill = "zero" THEN MatZero
    ELSE Mat(Cx(slot + 1, 1), Cx(0, -1), Cx(2, 0), Cx(-slot, 3))

SeqsUpTo(S, n) == UNION {[1..k -> S] : k \in 0..n}

VisLen(num_stations) == NumBaselines(num_stations) + VisPad

CallOf(kernel, prec, lo, hi, vis) ==
    [kernel |-> kernel, prec |-> prec, lo |-> lo, hi |-> hi, vis |-> vis]

\* The caller's programs.  "single": one call.  "batch": one call with all
\* sources into buffer 2, then the sources up to cut and the sources after
\* cut in two calls into buffer 1.  "precision": the single-precision kernel
\* into buffer 1 and the double-precision kernel into buffer 2.  "point": the Gaussian kernel into buffer
\* 1 and the point-source kernel into buffer 2.
Program(scen, prec, cut, ns) ==
    CASE scen = "single" -> <<CallOf("gaussian", prec, 1, ns, 1)>>
      [] scen = "batch"  -> <<CallOf("gaussian", prec, 1, ns, 2),
                              CallOf("gaussian", prec, 1, cut, 1),
                              CallOf("gaussian", prec, cut + 1, ns, 1)>>
      [] scen = "precision" -> <<CallOf("gaussian", "f", 1, ns, 1),
                                 CallOf("gaussian", "d", 1, ns, 2)>>
      [] OTHER           -> <<CallOf("gaussian", prec, 1, ns, 1),
                              CallOf("point", prec, 1, ns, 2)>>

CorInit(Ns, Ts, Scens, Ks, maxsrc, Ls, Ws, Fs, Fills) ==
    /\ IxIdle
    /\ BmIdle
    /\ StIdle
    /\ WdIdle
    /\ \E n \in Ns, src \in SeqsUpTo(Ks, maxsrc), layout \in Ls,
          iw \in Ws, fb \in Fs, fill \in Fills, nt \in Ts,
          prec \in {"f", "d"}, scen \in Scens :
        \E cut \in IF scen = "batch" THEN 0..Len(src) ELSE {0} :
          /\ world = [scen |-> scen, cut |-> cut, num_stations |-> n,
                      station_u |-> [s \in 0..(n - 1) |-> LayoutU(layout, s)],
                      station_v |-> [s \in 0..(n - 1) |-> LayoutV(layout, s)],
                      inv_wavelength |-> iw, frac_bandwidth |-> fb,
                      src |-> src, fill |-> fill, threads |-> nt]
          /\ todo = Program(scen, prec, cut, Len(src))
          /\ mem = [b \in BufIds |->
                       [slot \in 0..(VisLen(n) - 1) |-> FillOf(fill, slot)]]
    /\ cor_pc = "idle"
    /\ args = NoArgs
    /\ next_q = 0
    /\ thr = [t \in Threads |-> Private("off")]
    /\ mem0 = mem
    /\ v_loads = <<>>
    /\ v_stores = <<>>
    /\ v_iters = <<>>

\* The caller calls the next kernel of its program: the arguments are the
\* arrays of the sources lo..hi, the parallel region starts with the team of
\* threads the runtime provides.
Call ==
    /\ cor_pc = "idle"
    /\ todo # <<>>
    /\ LET cd == Head(todo)
           ns == cd.hi - cd.lo + 1
           n  == world.num_stations
           Src(i) == world.src[cd.lo + i]
       IN  /\ args' =
                [kernel |-> cd.kernel, prec |-> cd.prec,
                 num_sources |-> ns, num_stations |-> n,
                 jones |-> [j \in 0..(n * ns - 1) |->
                               JonesPat(Src(j % ns).jk, j \div ns)],
                 source_I |-> [i \in 0..(ns - 1) |-> Src(i).sI],
                 source_Q |-> [i \in 0..(ns - 1) |-> Src(i).sQ],
                 source_U |-> [i \in 0..(ns - 1) |-> Src(i).sU],
                 source_V |-> [i \in 0..(ns - 1) |-> Src(i).sV],
                 source_l |-> [i \in 0..(ns - 1) |-> Src(i).l],
                 source_m |-> [i \in 0..(ns - 1) |-> Src(i).m],
                 source_a |-> [i \in 0..(ns - 1) |-> Src(i).a],
                 source_b |-> [i \in 0..(ns - 1) |-> Src(i).b],
                 source_c |-> [i \in 0..(ns - 1) |-> Src(i).c],
                 station_u |-> world.station_u, station_v |-> world.station_v,
                 inv_wavelength |-> world.inv_wavelength,
                 frac_bandwidth |-> world.frac_bandwidth, vis |-> cd.vis]
           /\ v_loads' = [slot \in DOMAIN mem[cd.vis] |-> 0]
           /\ v_stores' = [slot \in DOMAIN mem[cd.vis] |-> 0]
           /\ v_iters' = [slot \in DOMAIN mem[cd.vis] |-> {}]
    /\ todo' = Tail(todo)
    /\ cor_pc' = "run"
    /\ next_q' = 0
    /\ thr' = [t \in Threads |->
                  IF t <= world.threads THEN Private("idle") ELSE Private("off")]
    /\ mem0' = mem
    /\ UNCHANGED <<world, mem>>
    /\ UNCHANGED noncorvars

(***************************************************************************)
(* oskar_correlate_gaussian_omp_f/_d, and the point-source kernel of the   *)
(* same shape: one thread's steps.                                         *)
(***************************************************************************)
\* "Baseline lengths", "Quantities needed for evaluating source with Gaussian
\* term", then "Modify the baseline distance to include the common components
\* of the bandwidth smearing term", in this order.
\* A plausible slip: the squares are taken after the rescale of uu and vv.
BaselineUV_Mutant(station_u, station_v, inv_wavelength, frac_bandwidth, p, q) ==
    LET uu == (station_u[p] - station_u[q]) * inv_wavelength * (M_PI * frac_bandwidth)
        vv == (station_v[p] - station_v[q]) * inv_wavelength * (M_PI * frac_bandwidth)
    IN  [uu2 |-> uu * uu, vv2 |-> vv * vv, uuvv |-> 2 * uu * vv, uu |-> uu, vv |-> vv]

BaselineUV(station_u, station_v, inv_wavelength, frac_bandwidth, p, q) ==
    LET uu == (station_u[p] - station_u[q]) * inv_wavelength
        vv == (station_v[p] - station_v[q]) * inv_wavelength
    IN  [uu2 |-> uu * uu, vv2 |-> vv * vv, uuvv |-> 2 * uu * vv,
         uu |-> uu * (M_PI * frac_bandwidth), vv |-> vv * (M_PI * frac_bandwidth)]

\* "Compute bandwidth-smearing term."
SmearTerm(uu, vv, l, m) == Sinc(uu * l + vv * m)

\* "Evaluate Gaussian source width term."
GaussExponent(sa, sb, sc, uu2, uuvv, vv2) == sa * uu2 + sb * uuvv + sc * vv2
GaussTerm(sa, sb, sc, uu2, uuvv, vv2) == Exp(-GaussExponent(sa, sb, sc, uu2, uuvv, vv2))

\* A plausible slip: r1 = r2 for r1 *= r2.
SourceWeight_Mutant(kernel, r1, r2) == IF kernel = "gaussian" THEN r2 ELSE r1

\* The weight handed to the accumulation: r1 *= r2 in the Gaussian kernel, r1
\* alone in the point-source kernel.
SourceWeight(kernel, r1, r2) == IF kernel = "gaussian" THEN FxMul(r1, r2) ELSE r1

\* oskar_accumulate_baseline_visibility_for_source_f/_d: add the source's
\* term to sum; single precision adds through the guard.  <<sum, guard>>.
AccumulateBaselineVisibilityForSource(prec, sum, guard, term) ==
    IF prec = "f"
    THEN LET new == [k \in 1..8 |->
                         KahanAdd(Comp(sum, k), Comp(guard, k), Comp(term, k))]
         IN  <<MatOfComps([k \in 1..8 |-> new[k][1]]),
               MatOfComps([k \in 1..8 |-> new[k][2]])>>
    ELSE <<MatAdd(sum, term), guard>>

\* vis[i] += sum, in the precision of the kernel.
VisAdd(prec, old, sum) ==
    IF prec = "f" THEN MatRound(MatAdd(old, sum)) ELSE MatAdd(old, sum)

\* schedule(dynamic, 1): an idle thread of the team takes the next value of
\* station_q and enters the outer loop body.
TakeIteration(t) ==
    /\ cor_pc = "run"
    /\ thr[t].pc = "idle"
    /\ next_q < args.num_stations
    /\ thr' = [thr EXCEPT ![t] = [Private("p_loop") EXCEPT
                  !.station_q = next_q, !.station_p = next_q + 1]]
    /\ next_q' = next_q + 1
    /\ UNCHANGED <<world, todo, mem, cor_pc, args, mem0, v_loads, v_stores, v_iters>>
    /\ UNCHANGED noncorvars

\* No iteration is left: the thread waits at the end of the parallel region.
OutOfWork(t) ==
    /\ cor_pc = "run"
    /\ thr[t].pc = "idle"
    /\ next_q >= args.num_stations
    /\ thr' = [thr EXCEPT ![t] = Private("done")]
    /\ UNCHANGED <<world, todo, mem, cor_pc, args, next_q, mem0, v_loads, v_stores, v_iters>>
    /\ UNCHANGED noncorvars

\* A plausible slip: sum.a.x is not zeroed (it starts at 1.0).
BaselineBegin_Mutant(t) ==
    /\ thr[t].pc = "p_loop"
    /\ thr[t].station_p < args.num_stations
    /\ LET uv == BaselineUV(args.station_u, args.station_v, args.inv_wavelength,
                            args.frac_bandwidth, thr[t].station_p, thr[t].station_q)
       IN  thr' = [thr EXCEPT ![t] = [@ EXCEPT
                      !.pc = "src_loop", !.sum = [MatZero EXCEPT !.a.x = FxOne],
                      !.guard = MatZero,
                      !.uu = uv.uu, !.vv = uv.vv, !.uu2 = uv.uu2, !.vv2 = uv.vv2,
                      !.uuvv = uv.uuvv, !.i = 0, !.nacc = 0]]
    /\ UNCHANGED <<world, todo, mem, cor_pc, args, next_q, mem0, v_loads, v_stores, v_iters>>
    /\ UNCHANGED noncorvars

\* station_p < num_stations: the body of the baseline loop up to the source
\* loop: sum and guard zeroed, the baseline quantities computed.
BaselineBegin(t) ==
    /\ thr[t].pc = "p_loop"
    /\ thr[t].station_p < args.num_stations
    /\ LET uv == BaselineUV(args.station_u, args.station_v, args.inv_wavelength,
                            args.frac_bandwidth, thr[t].station_p, thr[t].station_q)
       IN  thr' = [thr EXCEPT ![t] = [@ EXCEPT
                      !.pc = "src_loop", !.sum = MatZero, !.guard = MatZero,
                      !.uu = uv.uu, !.vv = uv.vv, !.uu2 = uv.uu2, !.vv2 = uv.vv2,
                      !.uuvv = uv.uuvv, !.i = 0, !.nacc = 0]]
    /\ UNCHANGED <<world, todo, mem, cor_pc, args, next_q, mem0, v_loads, v_stores, v_iters>>
    /\ UNCHANGED noncorvars

\* station_p >= num_stations: the outer iteration is over.
IterationEnd(t) ==
    /\ thr[t].pc = "p_loop"
    /\ thr[t].station_p >= args.num_stations
    /\ thr' = [thr EXCEPT ![t] = Private("idle")]
    /\ UNCHANGED <<world, todo, mem, cor_pc, args, next_q, mem0, v_loads, v_stores, v_iters>>
    /\ UNCHANGED noncorvars

\* The body of the source loop up to the accumulation: the weight of source
\* i on the baseline whose quantities are in bl, times J_p . B . J_q^H
\* (sp = &jones[station_p * num_sources], sq likewise).
SourceContribution(a, bl, station_p, station_q, i) ==
    LET r1 == SmearTerm(bl.uu, bl.vv, a.source_l[i], a.source_m[i])
        r2 == GaussTerm(a.source_a[i], a.source_b[i], a.source_c[i],
                        bl.uu2, bl.uuvv, bl.vv2)
    IN  SourceTerm(a.source_I[i], a.source_Q[i], a.source_U[i], a.source_V[i],
                   a.jones[station_p * a.num_sources + i],
                   a.jones[station_q * a.num_sources + i],
                   SourceWeight(a.kernel, r1, r2))

\* A plausible slip: each accumulation is handed a fresh, zero guard.
AccumulateSource_Mutant(t) ==
    /\ thr[t].pc = "src_loop"
    /\ thr[t].i < args.num_sources
    /\ LET me == thr[t]
           term == SourceContribution(args, me, me.station_p, me.station_q, me.i)
           acc == AccumulateBaselineVisibilityForSource(args.prec, me.sum, MatZero, term)
       IN  thr' = [thr EXCEPT ![t] = [@ EXCEPT
                      !.sum = acc[1], !.guard = MatZero, !.i = me.i + 1,
                      !.nacc = me.nacc + 1]]
    /\ UNCHANGED <<world, todo, mem, cor_pc, args, next_q, mem0, v_loads, v_stores, v_iters>>
    /\ UNCHANGED noncorvars

\* One pass of the source loop: source i is accumulated into the private sum.
AccumulateSource(t) ==
    /\ thr[t].pc = "src_loop"
    /\ thr[t].i < args.num_sources
    /\ LET me == thr[t]
           term == SourceContribution(args, me, me.station_p, me.station_q, me.i)
           acc == AccumulateBaselineVisibilityForSource(args.prec, me.sum, me.guard, term)
       IN  thr' = [thr EXCEPT ![t] = [@ EXCEPT
                      !.sum = acc[1], !.guard = acc[2], !.i = me.i + 1,
                      !.nacc = me.nacc + 1]]
    /\ UNCHANGED <<world, todo, mem, cor_pc, args, next_q, mem0, v_loads, v_stores, v_iters>>
    /\ UNCHANGED noncorvars

\* A plausible slip: the source loop is left one source early
\* (i >= num_sources - 1).
SourcesDone_Mutant(t) ==
    /\ thr[t].pc = "src_loop"
    /\ thr[t].i >= args.num_sources - 1
    /\ thr' = [thr EXCEPT ![t] = [@ EXCEPT
                  !.pc = "load",
                  !.i = VisIndex(args.num_stations, thr[t].station_q, thr[t].station_p)]]
    /\ UNCHANGED <<world, todo, mem, cor_pc, args, next_q, mem0, v_loads, v_stores, v_iters>>
    /\ UNCHANGED noncorvars

\* i >= num_sources: the source loop is over; i becomes the 1D visibility
\* index of the baseline.
SourcesDone(t) ==
    /\ thr[t].pc = "src_loop"
    /\ thr[t].i >= args.num_sources
    /\ thr' = [thr EXCEPT ![t] = [@ EXCEPT
                  !.pc = "load",
                  !.i = VisIndex(args.num_stations, thr[t].station_q, thr[t].station_p)]]
    /\ UNCHANGED <<world, todo, mem, cor_pc, args, next_q, mem0, v_loads, v_stores, v_iters>>
    /\ UNCHANGED noncorvars

\* "Add result to the baseline visibility", first half: vis[i] is loaded.
\* (The eight member adds of the slot are taken as one load and one store of
\* the slot: two threads race on a member exactly if both are between the
\* load and the store of the same slot.)  An index outside the caller's
\* buffer is undefined behaviour: the thread is lost.
LoadVis(t) ==
    /\ thr[t].pc = "load"
    /\ LET me == thr[t]
       IN  IF me.i \in DOMAIN mem[args.vis]
           THEN /\ thr' = [thr EXCEPT ![t] = [@ EXCEPT
                              !.pc = "store", !.old = mem[args.vis][me.i]]]
                /\ v_loads' = [v_loads EXCEPT ![me.i] = @ + 1]
                /\ v_iters' = [v_iters EXCEPT ![me.i] = @ \cup {me.station_q}]
           ELSE /\ thr' = [thr EXCEPT ![t] = [@ EXCEPT !.pc = "ub"]]
                /\ UNCHANGED <<v_loads, v_iters>>
    /\ UNCHANGED <<world, todo, mem, cor_pc, args, next_q, mem0, v_stores>>
    /\ UNCHANGED noncorvars

\* A plausible slip: vis[i] = sum for vis[i] += sum.
StoreVis_Mutant(t) ==
    /\ thr[t].pc = "store"
    /\ LET me == thr[t]
       IN  /\ mem' = [mem EXCEPT ![args.vis][me.i] = me.sum]
           /\ v_stores' = [v_stores EXCEPT ![me.i] = @ + 1]
           /\ thr' = [thr EXCEPT ![t] = [Private("p_loop") EXCEPT
                         !.station_q = me.station_q,
                         !.station_p = me.station_p + 1]]
    /\ UNCHANGED <<world, todo, cor_pc, args, next_q, mem0, v_loads, v_iters>>
    /\ UNCHANGED noncorvars

\* Second half: the loaded value plus sum is stored to vis[i]; the baseline
\* is finished: ++station_p.
StoreVis(t) ==
    /\ thr[t].pc = "store"
    /\ LET me == thr[t]
       IN  /\ mem' = [mem EXCEPT ![args.vis][me.i] = VisAdd(args.prec, me.old, me.sum)]
           /\ v_stores' = [v_stores EXCEPT ![me.i] = @ + 1]
           /\ thr' = [thr EXCEPT ![t] = [Private("p_loop") EXCEPT
                         !.station_q = me.station_q,
                         !.station_p = me.station_p + 1]]
    /\ UNCHANGED <<world, todo, cor_pc, args, next_q, mem0, v_loads, v_iters>>
    /\ UNCHANGED noncorvars

\* Every thread of the team has reached the end of the parallel region: the
\* call returns.
Return ==
    /\ cor_pc = "run"
    /\ \A t \in Threads : thr[t].pc \in {"done", "off"}
    /\ cor_pc' = "idle"
    /\ thr' = [t \in Threads |-> Private("off")]
    /\ UNCHANGED <<world, todo, mem, args, next_q, mem0, v_loads, v_stores, v_iters>>
    /\ UNCHANGED noncorvars

ThreadStep(t) ==
    \/ TakeIteration(t)
    \/ OutOfWork(t)
    \/ BaselineBegin(t)
    \/ IterationEnd(t)
    \/ AccumulateSource(t)
    \/ SourcesDone(t)
    \/ LoadVis(t)
    \/ StoreVis(t)

CorNext == Call \/ Return \/ \E t \in Threads : ThreadStep(t)

\* One Gaussian call with up to RaceStations stations and RaceSources sources
\* on a team of up to MaxThreads threads.
RaceKinds == {k \in SourceKinds : k.sI = 2}
RaceInit ==
    CorInit(0..RaceStations, 1..MaxThreads, {"single"}, RaceKinds, RaceSources,
            {1}, {1}, {1}, {"used"})

SpecRace == RaceInit /\ [][CorNext]_vars

\* The Gaussian kernel into one buffer and the point-source kernel into the
\* other, on every kind of source and every station layout.
PointInit ==
    CorInit(0..MaxStations, {1}, {"point"}, SourceKinds, MaxSources, Layouts, {2},
            {0, 1},
            {"zero", "used"})

SpecPoint == PointInit /\ [][CorNext]_vars

\* The sources in one call and in two calls of a batch each.
BatchInit ==
    CorInit(0..MaxStations, {1}, {"batch"}, SourceKinds, MaxSources, {1}, {1}, {1},
            {"zero", "used"})

SpecBatch == BatchInit /\ [][CorNext]_vars

\* The same sources through the single- and the double-precision kernel: a
\* bright source at the phase centre, whose term fills the single-precision
\* significand, and faint off-centre sources whose terms fall below its last
\* bit.
PrecisionSources == 6
PrecisionKinds ==
    { [sI |-> 2 ^ (FloatBits - 4), sQ |-> 0, sU |-> 0, sV |-> 0, l |-> 0, m |-> 0,
       a |-> 0, b |-> 0, c |-> 0, jk |-> 0],
      [sI |-> 1, sQ |-> 0, sU |-> 0, sV |-> 0, l |-> 1, m |-> 0,
       a |-> 0, b |-> 0, c |-> 0, jk |-> 0] }
PrecisionInit ==
    CorInit({2, 3}, {1}, {"precision"}, PrecisionKinds, PrecisionSources, {1}, {5},
            {1}, {"zero"})

SpecPrecision == PrecisionInit /\ [][CorNext]_vars

(***************************************************************************)
(* Claims about one correlator call on a team of threads.                  *)
(***************************************************************************)
InCall == args.kernel # "none"
Returned == InCall /\ cor_pc = "idle"
AtVis(t) == thr[t].pc \in {"load", "store"}

\* The sum over all sources of the per-source contributions of baseline
\* (q, p): what the baseline adds to its slot.
RECURSIVE SumOfSources(_, _, _, _, _)
SumOfSources(a, bl, p, q, n) ==
    IF n = 0 THEN MatZero
    ELSE MatAdd(SumOfSources(a, bl, p, q, n - 1), SourceContribution(a, bl, p, q, n - 1))

BaselineTotal(a, q, p) ==
    SumOfSources(a, BaselineUV(a.station_u, a.station_v, a.inv_wavelength,
                               a.frac_bandwidth, p, q), p, q, a.num_sources)

\* What a whole call adds to slot: the total of the baseline of that index,
\* nothing for a slot that is no baseline's.
SlotTotal(a, slot) ==
    LET hits == {qp \in Pairs(a.num_stations) :
                    VisIndex(a.num_stations, qp[1], qp[2]) = slot}
    IN  IF hits = {} THEN MatZero
        ELSE LET qp == CHOOSE x \in hits : TRUE IN BaselineTotal(a, qp[1], qp[2])

\* No two threads are inside a load/store of the same slot.
RaceFree ==
    \A t1 \in Threads : \A t2 \in Threads :
        (t1 # t2 /\ AtVis(t1) /\ AtVis(t2)) => thr[t1].i # thr[t2].i

\* C2: in every step of a call, under every interleaving of the outer
\* iterations: no two threads are inside a read-modify-write of the same vis
\* slot, no slot is ever touched by two different outer iterations, every
\* access is inside the caller's buffer, and nothing but the vis buffer of
\* the call is written (the argument arrays, the caller's data and the other
\* buffer stay as they are).
C2_NoRaceOnVis ==
    [][cor_pc = "run" =>
          /\ RaceFree'
          /\ \A slot \in DOMAIN v_iters' : Cardinality(v_iters'[slot]) <= 1
          /\ \A t \in Threads : thr'[t].pc # "ub"
          /\ args' = args
          /\ world' = world
          /\ \A b \in BufIds : b # args.vis => mem'[b] = mem[b]]_vars

C2_Witness ==
    \E t1 \in Threads : \E t2 \in Threads :
        /\ t1 # t2
        /\ thr[t1].pc = "store"
        /\ thr[t2].pc = "store"
        /\ thr[t1].station_q # thr[t2].station_q
        /\ thr[t1].i # thr[t2].i

\* C4: in a call with num_stations >= 2 no vis slot is loaded or stored more
\* than once, a thread reaches the add of a baseline only with all
\* num_sources sources accumulated, a slot holds its value from before the
\* call until its add and that value plus the baseline's total over all
\* sources afterwards, and at the return every slot below
\* num_stations*(num_stations-1)/2 has been added exactly once.
C4_OneAddPerSlot ==
    (InCall /\ args.num_stations >= 2) =>
        LET nb == NumBaselines(args.num_stations)
        IN  /\ \A t \in Threads : AtVis(t) => thr[t].nacc = args.num_sources
            /\ \A slot \in DOMAIN v_stores :
                   /\ v_loads[slot] <= 1
                   /\ v_stores[slot] <= v_loads[slot]
                   /\ mem[args.vis][slot] =
                          IF v_stores[slot] = 1
                          THEN MatAdd(mem0[args.vis][slot], SlotTotal(args, slot))
                          ELSE mem0[args.vis][slot]
                   /\ Returned => v_stores[slot] = (IF slot < nb THEN 1 ELSE 0)

C4_Witness ==
    /\ Returned
    /\ args.num_stations = 3
    /\ args.num_sources = RaceSources
    /\ world.threads = 2
    /\ \A slot \in 0..2 : v_stores[slot] = 1
    /\ \A slot \in 0..2 : mem[args.vis][slot] # mem0[args.vis][slot]

\* C5: with num_stations < 2 the call never loads or stores a vis slot; with
\* num_sources = 0 the local sum of every baseline is zero at its add and
\* every vis entry keeps, throughout and after the call, the value it had
\* before it.
C5_DegenerateInputs ==
    InCall =>
        /\ args.num_stations < 2 =>
               /\ \A t \in Threads : ~AtVis(t)
               /\ \A slot \in DOMAIN v_stores :
                      v_loads[slot] = 0 /\ v_stores[slot] = 0
               /\ mem = mem0
        /\ args.num_sources = 0 =>
               /\ \A t \in Threads : AtVis(t) => thr[t].sum = MatZero
               /\ mem = mem0

C5_Witness ==
    /\ Returned
    /\ args.num_sources = 0
    /\ args.num_stations = 3
    /\ \A slot \in 0..2 : v_stores[slot] = 1
    /\ mem = mem0

C5_WitnessNoStations ==
    /\ Returned
    /\ args.num_stations = 1
    /\ args.num_sources > 0
    /\ mem = mem0

(***************************************************************************)
(* Claims about the values the correlator leaves in vis.                   *)
(***************************************************************************)
ProgramDone == InCall /\ cor_pc = "idle" /\ todo = <<>>

\* The arguments of the call describe unit sources at the phase centre seen
\* through identity Jones matrices, with no Gaussian shape and no bandwidth.
UnitSky ==
    /\ args.num_sources >= 1
    /\ args.frac_bandwidth = 0
    /\ \A i \in 0..(args.num_sources - 1) :
           /\ args.source_l[i] = 0 /\ args.source_m[i] = 0
           /\ args.source_I[i] = 1 /\ args.source_Q[i] = 0
           /\ args.source_U[i] = 0 /\ args.source_V[i] = 0
           /\ args.source_a[i] = 0 /\ args.source_b[i] = 0 /\ args.source_c[i] = 0
    /\ \A j \in DOMAIN args.jones : args.jones[j] = MatIdentity

ZeroBuffer(buf) == \A slot \in DOMAIN buf : buf[slot] = MatZero

\* S + 0i on the diagonal, 0 off it (visibilities are fixed point).
UnitVis(S) == Mat(Cx(S * FxOne, 0), CZero, CZero, Cx(S * FxOne, 0))

\* C8: when a call on a zero-initialised buffer with S >= 1 unit sources at
\* the phase centre, identity Jones matrices, a = b = c = 0 and
\* frac_bandwidth = 0 has returned, every baseline's entry has a = d = S + 0i
\* and b = c = 0, whatever the station coordinates (every source was weighted
\* with exactly 1); with 3 stations and 1 source the 3 entries are
\* {a: 1, d: 1, b = c = 0}.
C8_UnitSkyVisibility ==
    (Returned /\ UnitSky /\ ZeroBuffer(mem0[args.vis])) =>
        \A slot \in 0..(NumBaselines(args.num_stations) - 1) :
            mem[args.vis][slot] = UnitVis(args.num_sources)

C8_Witness ==
    /\ Returned
    /\ UnitSky
    /\ ZeroBuffer(mem0[args.vis])
    /\ args.kernel = "gaussian"
    /\ args.num_stations = 3
    /\ args.num_sources = 1
    /\ args.station_u[2] = 4
    /\ \A slot \in 0..2 : mem[args.vis][slot] = UnitVis(1)

\* The second half of the caller's sources repeats the first half.
Doubled ==
    /\ Len(world.src) = 2 * world.cut
    /\ \A i \in 1..world.cut : world.src[world.cut + i] = world.src[i]

\* C9: when the caller has run one call with all its sources on one buffer
\* and two calls, with the sources up to cut and with the sources after cut,
\* on another buffer that began with the same content, the two buffers are
\* equal; and a zero-initialised buffer after a call with a source list
\* repeated twice holds twice what a call with the list once leaves.
C9_AdditiveOverSources ==
    world.scen = "batch" =>
        /\ ProgramDone => mem[1] = mem[2]
        /\ (cor_pc = "idle" /\ Len(todo) = 1 /\ world.fill = "zero" /\ Doubled) =>
               \A slot \in DOMAIN mem[1] : mem[2][slot] = MatScale(2, mem[1][slot])

C9_Witness ==
    /\ world.scen = "batch"
    /\ ProgramDone
    /\ world.num_stations = 3
    /\ world.cut = 1
    /\ Len(world.src) = 2
    /\ world.src[1] # world.src[2]
    /\ world.src[2].sI = 2
    /\ world.fill = "used"
    /\ mem[1] = mem[2]
    /\ \A slot \in 0..2 : mem[1][slot] # mem0[1][slot]
    /\ \A slot \in 0..2 : mem0[1][slot] # FillOf("used", slot)

C9_WitnessDoubled ==
    /\ world.scen = "batch"
    /\ cor_pc = "idle"
    /\ Len(todo) = 1
    /\ world.fill = "zero"
    /\ Doubled
    /\ world.cut = 1
    /\ world.num_stations = 3
    /\ \A slot \in 0..2 : mem[1][slot] # MatZero

\* Every source of the call is a point source: a = b = c = 0.
NoShape ==
    \A i \in 0..(args.num_sources - 1) :
        args.source_a[i] = 0 /\ args.source_b[i] = 0 /\ args.source_c[i] = 0

\* C10: when the Gaussian kernel has run into one buffer and the point-source
\* kernel, on the same input, into another that began with the same content,
\* and every source has a = b = c = 0, the two buffers are equal.
C10_GaussianZeroShapeIsPoint ==
    (world.scen = "point" /\ ProgramDone /\ NoShape) => mem[1] = mem[2]

C10_Witness ==
    /\ world.scen = "point"
    /\ ProgramDone
    /\ NoShape
    /\ args.kernel = "point"
    /\ args.num_stations = 3
    /\ args.num_sources = 2
    /\ args.frac_bandwidth = 1
    /\ args.source_l[0] = 1
    /\ args.station_u[2] = 4
    /\ mem[1] = mem[2]
    /\ \A slot \in 0..2 : mem[1][slot] # FillOf(world.fill, slot)

\* With a Gaussian source the two kernels do differ.
C10_ShapeMatters ==
    /\ world.scen = "point"
    /\ ProgramDone
    /\ ~NoShape
    /\ mem[1] # mem[2]

(***************************************************************************)
(* Claims about the baseline terms.                                        *)
(***************************************************************************)
\* Values of frac_bandwidth a second call could be given.
Bandwidths == {0, 1, 2}

\* A thread is in the source loop of a baseline.
InSources(t) == cor_pc = "run" /\ thr[t].pc = "src_loop"

\* C14: in the source loop of every baseline uu2, vv2 and uuvv are the squares
\* and the doubled product of the baseline lengths (u_p-u_q)*inv_wavelength
\* and (v_p-v_q)*inv_wavelength, and the Gaussian exponent of every source is
\* what the kernel computes for any other frac_bandwidth; uu and vv, which the
\* sinc argument uses, are the lengths times pi*frac_bandwidth.
C14_ShapeTermBeforeRescale ==
    \A t \in Threads : InSources(t) =>
        LET me == thr[t]
            ul == (args.station_u[me.station_p] - args.station_u[me.station_q])
                      * args.inv_wavelength
            vl == (args.station_v[me.station_p] - args.station_v[me.station_q])
                      * args.inv_wavelength
        IN  /\ me.uu2 = ul * ul /\ me.vv2 = vl * vl /\ me.uuvv = 2 * ul * vl
            /\ me.uu = ul * M_PI * args.frac_bandwidth
            /\ me.vv = vl * M_PI * args.frac_bandwidth
            /\ \A fb \in Bandwidths, i \in 0..(args.num_sources - 1) :
                   LET other == BaselineUV(args.station_u, args.station_v,
                                           args.inv_wavelength, fb,
                                           me.station_p, me.station_q)
                   IN  GaussExponent(args.source_a[i], args.source_b[i],
                                     args.source_c[i], me.uu2, me.uuvv, me.vv2)
                         = GaussExponent(args.source_a[i], args.source_b[i],
                                         args.source_c[i], other.uu2, other.uuvv,
                                         other.vv2)

\* A baseline of non-zero length in both directions, a Gaussian source, and a
\* rescale that changes uu and vv.
C14_Witness ==
    \E t \in Threads :
        /\ InSources(t)
        /\ args.kernel = "gaussian"
        /\ thr[t].uuvv # 0
        /\ thr[t].uu * thr[t].uu # thr[t].uu2
        /\ thr[t].vv * thr[t].vv # thr[t].vv2
        /\ \E i \in 0..(args.num_sources - 1) :
               GaussExponent(args.source_a[i], args.source_b[i], args.source_c[i],
                             thr[t].uu2, thr[t].uuvv, thr[t].vv2) > 0

C13_GuardCarries ==
    /\ world.scen = "precision"
    /\ cor_pc = "run"
    /\ args.prec = "f"
    /\ thr[1].pc = "src_loop"
    /\ thr[1].nacc >= 2
    /\ Comp(thr[1].guard, 1) # 0

(***************************************************************************)
(* oskar_evaluate_average_scalar_cross_power_beam_omp_f/_d.                *)
(* Floating-point values that pass through the division are exact          *)
(* rationals num/den in lowest terms, or an infinity, or a NaN.            *)
(***************************************************************************)
BeamStations == 3
BeamSources == 2

RECURSIVE Gcd(_, _)
Gcd(a, b) == IF b = 0 THEN a ELSE Gcd(b, a % b)

Sign(x) == IF x < 0 THEN -1 ELSE 1
NaN == [kind |-> "nan"]
Inf(sign) == [kind |-> "inf", sign |-> sign]
\* n/d for d # 0, in lowest terms with a positive denominator.
Fin(n, d) ==
    LET g == Gcd(Abs(n), Abs(d))
    IN  [kind |-> "fin", num |-> (Sign(d) * n) \div g, den |-> Abs(d) \div g]
IsFinite(f) == f.kind = "fin"

\* a / b in floating point, for integer-valued a and b: a division by zero
\* gives an infinity, or a NaN for 0/0.
FDiv(a, b) ==
    IF b # 0 THEN Fin(a, b) ELSE IF a = 0 THEN NaN ELSE Inf(Sign(a))

\* x * f in floating point, for an integer-valued x.
FMul(x, f) ==
    CASE f.kind = "fin" -> Fin(x * f.num, f.den)
      [] f.kind = "inf" -> IF x = 0 THEN NaN ELSE Inf(Sign(x) * f.sign)
      [] OTHER          -> NaN

\* A plausible slip: 1.0f / ... for 2.0f / ...
BmNorm_Mutant(num_stations) == FDiv(1, num_stations * (num_stations - 1))

\* norm = 2.0f / (num_stations * (num_stations - 1));
BmNorm(num_stations) == FDiv(2, num_stations * (num_stations - 1))

\* OSKAR_MULTIPLY_ADD_COMPLEX_CONJUGATE(val, p, q): val += p * conj(q).
MultiplyAddComplexConjugate(val, p, q) == CAdd(val, CMul(p, CConj(q)))

\* The private variables of iteration i of the source loop.
BmPrivate(pc) ==
    [pc |-> pc, SP |-> 0, SQ |-> 0, val1 |-> CZero, val2 |-> CZero, p |-> CZero,
     q |-> CZero, pairs |-> <<>>]

\* The caller's scalar Jones values, per source pattern and station.
BeamPatterns == {0, 1, 2}
BeamJones(pat, s) ==
    CASE pat = 0 -> Cx(1, 0)
      [] pat = 1 -> Cx(s + 1, s)
      [] OTHER   -> IF s % 2 = 0 THEN Cx(0, 1) ELSE Cx(2, -1)

\* What the output array holds before the call.
BeamFills == {Fin(0, 1), Fin(-7, 3)}

BmInit ==
    /\ IxIdle
    /\ CorIdle
    /\ StIdle
    /\ WdIdle
    /\ \E n \in 0..BeamStations, pats \in SeqsUpTo(BeamPatterns, BeamSources),
          fill \in BeamFills :
        LET ns == Len(pats)
        IN  /\ bm_args = [num_sources |-> ns, num_stations |-> n,
                          jones |-> [j \in 0..(n * ns - 1) |->
                                        BeamJones(pats[(j % ns) + 1], j \div ns)]]
            /\ beam = [i \in 0..(ns - 1) |-> [x |-> fill, y |-> fill]]
            /\ bm_it = [i \in 0..(ns - 1) |-> BmPrivate("todo")]
    /\ bm_pc = "entry"
    /\ bm_norm = NaN
    /\ bm_divzero = FALSE

\* Entry: norm is computed, then the parallel loop over the sources starts.
\* A floating-point division by zero gives the IEC 60559 result, or traps
\* where the build enables the trap.
BmEnter ==
    /\ bm_pc = "entry"
    /\ LET divisor == bm_args.num_stations * (bm_args.num_stations - 1)
       IN  /\ bm_divzero' = (divisor = 0)
           /\ \/ /\ bm_norm' = BmNorm(bm_args.num_stations)
                 /\ bm_pc' = "loop"
              \/ /\ divisor = 0
                 /\ bm_norm' = bm_norm
                 /\ bm_pc' = "fpe"
    /\ UNCHANGED <<bm_args, bm_it, beam>>
    /\ UNCHANGED nonbmvars

\* Iteration i begins: val1 = 0, SP = 0.
BmIterBegin(i) ==
    /\ bm_pc = "loop"
    /\ bm_it[i].pc = "todo"
    /\ bm_it' = [bm_it EXCEPT ![i] = [@ EXCEPT !.pc = "sp", !.val1 = CZero, !.SP = 0]]
    /\ UNCHANGED <<bm_pc, bm_args, bm_norm, beam, bm_divzero>>
    /\ UNCHANGED nonbmvars

\* SP < num_stations: load p, val2 = 0, SQ = SP + 1.
BmOuter(i) ==
    /\ bm_it[i].pc = "sp"
    /\ bm_it[i].SP < bm_args.num_stations
    /\ LET me == bm_it[i]
       IN  bm_it' = [bm_it EXCEPT ![i] = [@ EXCEPT
                        !.pc = "sq", !.val2 = CZero, !.SQ = me.SP + 1,
                        !.p = bm_args.jones[me.SP * bm_args.num_sources + i]]]
    /\ UNCHANGED <<bm_pc, bm_args, bm_norm, beam, bm_divzero>>
    /\ UNCHANGED nonbmvars

\* SQ < num_stations: load q, val2 += p * conj(q), ++SQ.
BmInner(i) ==
    /\ bm_it[i].pc = "sq"
    /\ bm_it[i].SQ < bm_args.num_stations
    /\ LET me == bm_it[i]
           q  == bm_args.jones[me.SQ * bm_args.num_sources + i]
       IN  bm_it' = [bm_it EXCEPT ![i] = [@ EXCEPT
                        !.q = q, !.SQ = me.SQ + 1,
                        !.val2 = MultiplyAddComplexConjugate(me.val2, me.p, q),
                        !.pairs = Append(me.pairs, <<me.SP, me.SQ>>)]]
    /\ UNCHANGED <<bm_pc, bm_args, bm_norm, beam, bm_divzero>>
    /\ UNCHANGED nonbmvars

\* SQ >= num_stations: val1 += val2, ++SP.
BmPartial(i) ==
    /\ bm_it[i].pc = "sq"
    /\ bm_it[i].SQ >= bm_args.num_stations
    /\ LET me == bm_it[i]
       IN  bm_it' = [bm_it EXCEPT ![i] = [@ EXCEPT
                        !.pc = "sp", !.val1 = CAdd(me.val1, me.val2),
                        !.SP = me.SP + 1]]
    /\ UNCHANGED <<bm_pc, bm_args, bm_norm, beam, bm_divzero>>
    /\ UNCHANGED nonbmvars

\* SP >= num_stations: val1 *= norm, beam[i] = val1.
BmStore(i) ==
    /\ bm_it[i].pc = "sp"
    /\ bm_it[i].SP >= bm_args.num_stations
    /\ beam' = [beam EXCEPT ![i] = [x |-> FMul(bm_it[i].val1.x, bm_norm),
                                    y |-> FMul(bm_it[i].val1.y, bm_norm)]]
    /\ bm_it' = [bm_it EXCEPT ![i] = [@ EXCEPT !.pc = "done"]]
    /\ UNCHANGED <<bm_pc, bm_args, bm_norm, bm_divzero>>
    /\ UNCHANGED nonbmvars

\* Every iteration is done: the kernel returns.
BmReturn ==
    /\ bm_pc = "loop"
    /\ \A i \in DOMAIN bm_it : bm_it[i].pc = "done"
    /\ bm_pc' = "done"
    /\ UNCHANGED <<bm_args, bm_norm, bm_it, beam, bm_divzero>>
    /\ UNCHANGED nonbmvars

BmIteration(i) ==
    \/ BmIterBegin(i)
    \/ BmOuter(i)
    \/ BmInner(i)
    \/ BmPartial(i)
    \/ BmStore(i)

BmNext == BmEnter \/ BmReturn \/ \E i \in DOMAIN bm_it : BmIteration(i)

SpecBeam == BmInit /\ [][BmNext]_vars

(***************************************************************************)
(* Claims about the average cross-power beam kernel.                       *)
(***************************************************************************)
\* C6: with num_stations in {0, 1} and any num_sources the kernel is a
\* no-op: the normalisation is never computed with a zero divisor and no
\* non-finite value is stored into beam.
C6_NoOpBelowTwoStations ==
    bm_args.num_stations < 2 =>
        /\ ~bm_divzero
        /\ \A i \in DOMAIN beam : IsFinite(beam[i].x) /\ IsFinite(beam[i].y)

\* What the kernel does there instead: the divisor is 0, and where the
\* division does not trap every source's beam value becomes a NaN.
C6_NaNStored ==
    (bm_pc = "done" /\ bm_args.num_stations < 2) =>
        /\ bm_divzero
        /\ \A i \in DOMAIN beam : beam[i] = [x |-> NaN, y |-> NaN]

C6_NaNStoredWitness ==
    /\ bm_pc = "done"
    /\ bm_args.num_stations = 1
    /\ bm_args.num_sources = 2
    /\ beam[0] = [x |-> NaN, y |-> NaN]

\* The sum over the station pairs SP < SQ of jones[SP][i] * conj(jones[SQ][i]).
RECURSIVE SumOverPairs(_, _)
SumOverPairs(pairs, i) ==
    IF pairs = {} THEN CZero
    ELSE LET sq == CHOOSE x \in pairs : TRUE
         IN  CAdd(CMul(bm_args.jones[sq[1] * bm_args.num_sources + i],
                       CConj(bm_args.jones[sq[2] * bm_args.num_sources + i])),
                  SumOverPairs(pairs \ {sq}, i))

\* C7: when the kernel has returned from a call with num_stations >= 2, every
\* beam[i] is, whatever it held before, the sum over the unordered station
\* pairs of one station's Jones value times the conjugate of the other's,
\* times 2/(num_stations*(num_stations-1)), each pair having been multiplied
\* and added exactly once; with num_stations = 2 the scale is exactly 1 and
\* beam[i] is jones[0][i] * conj(jones[1][i]).
C7_AverageCrossPower ==
    (bm_pc = "done" /\ bm_args.num_stations >= 2) =>
        LET n  == bm_args.num_stations
            ns == bm_args.num_sources
        IN  \A i \in 0..(ns - 1) :
                LET total == SumOverPairs(Pairs(n), i)
                    pairs == bm_it[i].pairs
                IN  /\ beam[i] = [x |-> Fin(2 * total.x, n * (n - 1)),
                                  y |-> Fin(2 * total.y, n * (n - 1))]
                    /\ Len(pairs) = NumBaselines(n)
                    /\ {pairs[j] : j \in 1..Len(pairs)} = Pairs(n)
                    /\ n = 2 =>
                           LET z == CMul(bm_args.jones[i], CConj(bm_args.jones[ns + i]))
                           IN  /\ bm_norm = Fin(1, 1)
                               /\ beam[i] = [x |-> Fin(z.x, 1), y |-> Fin(z.y, 1)]

C7_Witness ==
    /\ bm_pc = "done"
    /\ bm_args.num_stations = 3
    /\ bm_args.num_sources = 2
    /\ beam[0].x.den = 3
    /\ beam[1].y.num # 0
    /\ beam[0] # beam[1]

\* The pair contributions of the beam kernel so far, as <<station whose
\* Jones value is used unconjugated, station whose value is conjugated>>.
BeamContributions == UNION {{bm_it[i].pairs[j] : j \in 1..Len(bm_it[i].pairs)} : i \in DOMAIN bm_it}

\* The pair contributions a thread of the correlator is making, likewise:
\* the term is J_p * B * J_q^H with sp, sq the Jones data of station_p, station_q.
CorrelatorContributions ==
    {<<thr[t].station_p, thr[t].station_q>> : t \in {u \in Threads : InSources(u)}}

\* C15: in every pair contribution of both kernels the station whose Jones
\* data is used unconjugated has the strictly larger index and the station
\* whose data is conjugated the strictly smaller one.
C15_UnconjugatedIsLarger ==
    \A pq \in CorrelatorContributions \cup BeamContributions : pq[1] > pq[2]

\* What the kernels do: the correlator conjugates the station of smaller
\* index, the beam kernel the station of larger index; the two stations of a
\* pair always differ.
C15_CorrelatorConvention ==
    \A pq \in CorrelatorContributions : pq[1] > pq[2]

C15_BeamConvention ==
    \A pq \in BeamContributions : pq[1] < pq[2]

C15_BeamContributes ==
    /\ bm_pc = "done"
    /\ bm_args.num_stations = 3
    /\ BeamContributions = {<<0, 1>>, <<0, 2>>, <<1, 2>>}

C15_CorrelatorContributes ==
    CorrelatorContributions # {} /\ args.num_sources > 0

(***************************************************************************)
(* oskar_station_override_element_xy_position_errors.                      *)
(* The station hierarchy is a tree of nodes addressed by index; a child    *)
(* pointer is a node index, or 0 for a null pointer.  The recursion is a   *)
(* stack of calls, each with its s and its loop counter i.                 *)
(***************************************************************************)
MaxElements == 2
MaxDefects == 1

\* Status codes: 0 is success.
OSKAR_ERR_INVALID_ARGUMENT == -3
OSKAR_ERR_BAD_LOCATION == -4
\* An error of an earlier stage that the caller passes in.
IncomingError == -1
IncomingStatus == {0, IncomingError, OSKAR_ERR_BAD_LOCATION}

\* oskar_set_invalid_argument(status): reports invalid-argument through the
\* status code, where there is one.
SetInvalidArgument(status) ==
    IF status.null THEN status ELSE [status EXCEPT !.val = OSKAR_ERR_INVALID_ARGUMENT]

\* The hierarchies of the runs: per node, the indices of its children.
StShapes ==
    { << <<>> >>,
      << <<2, 3>>, <<>>, <<>> >>,
      << <<2, 3>>, <<4, 5>>, <<>>, <<>>, <<>> >> }

\* Pairs (delta_x, delta_y) that oskar_random_gaussian can hand back.
Deltas == {<<0, 1>>, <<-1, 2>>}
PositionErrors == {0, 3}

\* Station k of a hierarchy: its children (those in nulls are null pointers),
\* its memory location and its element arrays.
StationOf(shape, k, gpu, nulls, type) ==
    LET kids == shape[k]
        n    == IF kids = <<>> THEN (k + 1) % (MaxElements + 1) ELSE Len(kids)
    IN  [loc |-> IF k \in gpu THEN "gpu" ELSE "cpu",
         has_child |-> kids # <<>>,
         num_elements |-> n,
         child |-> [j \in 1..Len(kids) |-> IF kids[j] \in nulls THEN 0 ELSE kids[j]],
         type |-> type,
         x_signal |-> [j \in 1..n |-> 10 * k + j],
         y_signal |-> [j \in 1..n |-> -(10 * k + j)],
         x_weights |-> [j \in 1..n |-> k + j],
         y_weights |-> [j \in 1..n |-> k - j]]

UpTo(S, n) == {T \in SUBSET S : Cardinality(T) <= n}

\* A call that has just been entered.
StCall(s) == [s |-> s, pc |-> "entry", i |-> 0]

StInit ==
    /\ IxIdle
    /\ CorIdle
    /\ BmIdle
    /\ WdIdle
    /\ \E shape \in StShapes, type \in {"double", "single"} :
        \E gpu \in UpTo(1..Len(shape), MaxDefects),
           nulls \in UpTo(2..Len(shape), MaxDefects) :
            st_nodes = [k \in 1..Len(shape) |-> StationOf(shape, k, gpu, nulls, type)]
    /\ st_s \in {0, 1}
    /\ st_err \in PositionErrors
    /\ \E null \in BOOLEAN, val \in IncomingStatus :
        st_status = [null |-> null, val |-> IF null THEN 0 ELSE val]
    /\ st_stack = <<StCall(st_s)>>
    /\ st_pc = "call"
    /\ st_hist = [nodes |-> st_nodes, status |-> st_status.val, writes |-> <<>>,
                  changes |-> <<>>]

\* The innermost active call.
StTop == st_stack[Len(st_stack)]

\* return: the innermost call ends; its caller, if any, goes on with ++i.
StReturn ==
    LET n == Len(st_stack)
    IN  /\ st_stack' = IF n = 1 THEN <<>>
                       ELSE [SubSeq(st_stack, 1, n - 1) EXCEPT ![n - 1].i = @ + 1]
        /\ st_pc' = IF n = 1 THEN "done" ELSE "call"

\* if (!s || !status) { oskar_set_invalid_argument(status); return; }
StInvalidArgument ==
    /\ st_pc = "call"
    /\ StTop.pc = "entry"
    /\ StTop.s = 0 \/ st_status.null
    /\ st_status' = SetInvalidArgument(st_status)
    /\ st_hist' = IF st_status.null THEN st_hist
                  ELSE [st_hist EXCEPT !.changes = Append(@, st_status'.val)]
    /\ StReturn
    /\ UNCHANGED <<st_nodes, st_s, st_err>>
    /\ UNCHANGED nonstvars

\* if (*status) return;
StStatusSet ==
    /\ st_pc = "call"
    /\ StTop.pc = "entry"
    /\ StTop.s # 0 /\ ~st_status.null
    /\ st_status.val # 0
    /\ StReturn
    /\ UNCHANGED <<st_nodes, st_s, st_err, st_status, st_hist>>
    /\ UNCHANGED nonstvars

\* if (oskar_station_location(s) != OSKAR_LOCATION_CPU)
\* { *status = OSKAR_ERR_BAD_LOCATION; return; }
StBadLocation ==
    /\ st_pc = "call"
    /\ StTop.pc = "entry"
    /\ StTop.s # 0 /\ ~st_status.null
    /\ st_status.val = 0
    /\ st_nodes[StTop.s].loc # "cpu"
    /\ st_status' = [st_status EXCEPT !.val = OSKAR_ERR_BAD_LOCATION]
    /\ st_hist' = [st_hist EXCEPT !.changes = Append(@, OSKAR_ERR_BAD_LOCATION)]
    /\ StReturn
    /\ UNCHANGED <<st_nodes, st_s, st_err>>
    /\ UNCHANGED nonstvars

\* A plausible slip: the branch without the check of *status before it.
StBranch_Mutant ==
    /\ st_pc = "call"
    /\ StTop.pc = "entry"
    /\ StTop.s # 0 /\ ~st_status.null
    /\ st_nodes[StTop.s].loc = "cpu"
    /\ st_stack' = [st_stack EXCEPT ![Len(st_stack)] =
                       [@ EXCEPT !.pc = IF st_nodes[StTop.s].has_child
                                        THEN "children" ELSE "leaf",
                                 !.i = 0]]
    /\ UNCHANGED <<st_pc, st_nodes, st_s, st_err, st_status, st_hist>>
    /\ UNCHANGED nonstvars

\* The checks passed: the station has children (i = 0 of the loop over them)
\* or is at the last level (i = 0 of the loop over its elements).
StBranch ==
    /\ st_pc = "call"
    /\ StTop.pc = "entry"
    /\ StTop.s # 0 /\ ~st_status.null
    /\ st_status.val = 0
    /\ st_nodes[StTop.s].loc = "cpu"
    /\ st_stack' = [st_stack EXCEPT ![Len(st_stack)] =
                       [@ EXCEPT !.pc = IF st_nodes[StTop.s].has_child
                                        THEN "children" ELSE "leaf",
                                 !.i = 0]]
    /\ UNCHANGED <<st_pc, st_nodes, st_s, st_err, st_status, st_hist>>
    /\ UNCHANGED nonstvars

\* i < s->num_elements: the recursive call on oskar_station_child(s, i).
StChildCall ==
    /\ st_pc = "call"
    /\ StTop.pc = "children"
    /\ StTop.i < st_nodes[StTop.s].num_elements
    /\ st_stack' = Append(st_stack, StCall(st_nodes[StTop.s].child[StTop.i + 1]))
    /\ UNCHANGED <<st_pc, st_nodes, st_s, st_err, st_status, st_hist>>
    /\ UNCHANGED nonstvars

\* i >= s->num_elements in the loop over the children: the call ends.
StChildrenDone ==
    /\ st_pc = "call"
    /\ StTop.pc = "children"
    /\ StTop.i >= st_nodes[StTop.s].num_elements
    /\ StReturn
    /\ UNCHANGED <<st_nodes, st_s, st_err, st_status, st_hist>>
    /\ UNCHANGED nonstvars

\* A plausible slip: the error is added to the signal coordinates themselves.
StOverride_Mutant ==
    /\ st_pc = "call"
    /\ StTop.pc = "leaf"
    /\ StTop.i < st_nodes[StTop.s].num_elements
    /\ \E d \in Deltas :
        LET s       == StTop.s
            i       == StTop.i
            delta_x == d[1] * st_err
            delta_y == d[2] * st_err
        IN  /\ st_nodes' = [st_nodes EXCEPT
                   ![s].x_signal[i + 1] = st_nodes[s].x_signal[i + 1] + delta_x,
                   ![s].y_signal[i + 1] = st_nodes[s].y_signal[i + 1] + delta_y]
            /\ st_hist' = [st_hist EXCEPT !.writes = Append(@, <<s, i, d>>)]
    /\ st_stack' = [st_stack EXCEPT ![Len(st_stack)].i = @ + 1]
    /\ UNCHANGED <<st_pc, st_s, st_err, st_status>>
    /\ UNCHANGED nonstvars

\* delta_x = oskar_random_gaussian(&delta_y); each scaled by
\* position_error_xy_m; xs[i] = xw[i] + delta_x; ys[i] = yw[i] + delta_y; ++i.
StOverride ==
    /\ st_pc = "call"
    /\ StTop.pc = "leaf"
    /\ StTop.i < st_nodes[StTop.s].num_elements
    /\ \E d \in Deltas :
        LET s       == StTop.s
            i       == StTop.i
            delta_x == d[1] * st_err
            delta_y == d[2] * st_err
        IN  /\ st_nodes' = [st_nodes EXCEPT
                   ![s].x_signal[i + 1] = st_nodes[s].x_weights[i + 1] + delta_x,
                   ![s].y_signal[i + 1] = st_nodes[s].y_weights[i + 1] + delta_y]
            /\ st_hist' = [st_hist EXCEPT !.writes = Append(@, <<s, i, d>>)]
    /\ st_stack' = [st_stack EXCEPT ![Len(st_stack)].i = @ + 1]
    /\ UNCHANGED <<st_pc, st_s, st_err, st_status>>
    /\ UNCHANGED nonstvars

\* i >= s->num_elements in the loop over the elements: the call ends.
StLeafDone ==
    /\ st_pc = "call"
    /\ StTop.pc = "leaf"
    /\ StTop.i >= st_nodes[StTop.s].num_elements
    /\ StReturn
    /\ UNCHANGED <<st_nodes, st_s, st_err, st_status, st_hist>>
    /\ UNCHANGED nonstvars

StNext ==
    \/ StInvalidArgument
    \/ StStatusSet
    \/ StBadLocation
    \/ StBranch
    \/ StChildCall
    \/ StChildrenDone
    \/ StOverride
    \/ StLeafDone

SpecStation == StInit /\ [][StNext]_vars

\* The same calls, where a call that can take a step does.
SpecStationFair == StInit /\ [][StNext]_vars /\ WF_vars(StNext)

(***************************************************************************)
(* Claims about the station override.                                      *)
(***************************************************************************)
\* The hierarchy the stations were built from, and a node's parent in it
\* (0 for the root).
StShapeOf == CHOOSE shape \in StShapes : Len(shape) = Len(st_hist.nodes)
StParent(k) ==
    IF \E a \in 1..Len(StShapeOf) : \E j \in 1..Len(StShapeOf[a]) : StShapeOf[a][j] = k
    THEN CHOOSE a \in 1..Len(StShapeOf) :
             \E j \in 1..Len(StShapeOf[a]) : StShapeOf[a][j] = k
    ELSE 0

\* The pointer to station k that its parent holds is null.
StNullChild(k) ==
    /\ StParent(k) # 0
    /\ \A j \in 1..Len(st_hist.nodes[StParent(k)].child) :
           st_hist.nodes[StParent(k)].child[j] # k

RECURSIVE StAncestors(_)
StAncestors(k) == IF k = 0 THEN {} ELSE {k} \cup StAncestors(StParent(k))

\* The top-level call is entered with a null s, a null status or *status set.
StEnteredFailed == st_s = 0 \/ st_status.null \/ st_hist.status # 0

\* Station k or a station above it is one a call fails on at entry.
StBlocked(k) ==
    \/ StEnteredFailed
    \/ \E a \in StAncestors(k) : st_hist.nodes[a].loc # "cpu" \/ StNullChild(a)

\* The elements of station k that have been written, in order.
StWritesTo(k) == SelectSeq(st_hist.writes, LAMBDA w : w[1] = k)

\* C11: once the status is non-success (or there is no status) no step
\* modifies any station; and no element coordinate is ever modified of a
\* station that a call fails on at entry (null station, null status, *status
\* set, not in CPU memory) or of a station below one.
C11_NoWorkAfterFailure ==
    [][/\ (st_status.null \/ st_status.val # 0) => st_nodes' = st_nodes
       /\ \A k \in DOMAIN st_nodes' : StBlocked(k)' => st_nodes'[k] = st_hist'.nodes[k]
      ]_vars

\* A call that wrote a leaf, then failed on a child, and returned with a later
\* station in CPU memory that has elements and was never written.
C11_Witness ==
    /\ st_pc = "done"
    /\ ~StEnteredFailed
    /\ st_status.val # 0
    /\ st_hist.writes # <<>>
    /\ \E k \in DOMAIN st_nodes :
        /\ ~StBlocked(k)
        /\ ~st_nodes[k].has_child
        /\ st_nodes[k].num_elements > 0
        /\ StWritesTo(k) = <<>>
        /\ st_nodes[k] = st_hist.nodes[k]

\* C12: the status surfaced is the first failure's: once *status is non-zero
\* (on entry or by a failure) no later step of the traversal changes it to a
\* different value.
C12_FirstFailureSurfaced ==
    [][(~st_status.null /\ st_status.val # 0) => st_status'.val = st_status.val]_vars

\* What the traversal does instead: the null check comes before the check of
\* *status and the loop over the children calls on after a failure, so a
\* null station reports invalid-argument over an earlier error.
C12_LastNullWins ==
    (st_pc = "done" /\ ~st_status.null /\ st_hist.changes # <<>>) =>
        /\ st_status.val = st_hist.changes[Len(st_hist.changes)]
        /\ \A j \in 2..Len(st_hist.changes) :
               st_hist.changes[j] = OSKAR_ERR_INVALID_ARGUMENT

C12_OverwrittenInTree ==
    /\ st_pc = "done"
    /\ st_hist.status = 0
    /\ st_hist.changes = <<OSKAR_ERR_BAD_LOCATION, OSKAR_ERR_INVALID_ARGUMENT>>
    /\ st_status.val = OSKAR_ERR_INVALID_ARGUMENT

C12_OverwrittenAtEntry ==
    /\ st_pc = "done"
    /\ st_s = 0
    /\ st_hist.status = IncomingError
    /\ st_status.val = OSKAR_ERR_INVALID_ARGUMENT

\* The top-level call has returned with success.
StSucceeded ==
    st_pc = "done" /\ st_s # 0 /\ ~st_status.null /\ st_status.val = 0

\* Leaf k has had each element written once, in order, from its weights.
StOverridden(k) ==
    LET w == StWritesTo(k)
    IN  /\ Len(w) = st_nodes[k].num_elements
        /\ \A j \in 1..Len(w) :
            /\ w[j][2] = j - 1
            /\ st_nodes[k].x_signal[j] = st_nodes[k].x_weights[j] + w[j][3][1] * st_err
            /\ st_nodes[k].y_signal[j] = st_nodes[k].y_weights[j] + w[j][3][2] * st_err

\* C16: every top-level call returns; weights are never modified; and when the
\* call has returned with success every leaf station has each element of
\* x_signal and y_signal written exactly once as x_weights[i] +
\* delta_x*position_error_xy_m and y_weights[i] + delta_y*position_error_xy_m,
\* and no array of a station with children is modified.
C16_LeavesOverriddenOnce ==
    /\ <>(st_pc = "done")
    /\ [](\A k \in DOMAIN st_nodes :
            /\ st_nodes[k].x_weights = st_hist.nodes[k].x_weights
            /\ st_nodes[k].y_weights = st_hist.nodes[k].y_weights
            /\ st_nodes[k].has_child => st_nodes[k] = st_hist.nodes[k])
    /\ [](StSucceeded =>
            \A k \in DOMAIN st_nodes : ~st_nodes[k].has_child => StOverridden(k))

\* A successful call over the hierarchy of five stations with a non-zero
\* position error: the three leaves' elements have been written.
C16_Witness ==
    /\ StSucceeded
    /\ Len(st_nodes) = 5
    /\ st_err # 0
    /\ Len(st_hist.writes) >= 3
    /\ \E k \in DOMAIN st_nodes :
        /\ st_nodes[k].num_elements >= 2
        /\ ~st_nodes[k].has_child
        /\ st_nodes[k].x_signal # st_hist.nodes[k].x_signal
        /\ st_nodes[k].x_signal[1] - st_nodes[k].x_weights[1]
              # st_nodes[k].x_signal[2] - st_nodes[k].x_weights[2]

(***************************************************************************)
(* The index expression and the beam divisor in int arithmetic.  An int    *)
(* has IntBits bits (32 in the build).  Signed overflow is undefined: the  *)
(* build wraps around, or traps.                                           *)
(***************************************************************************)
IntBits == 8
INT_MAX == 2 ^ (IntBits - 1) - 1
INT_MIN == -(2 ^ (IntBits - 1))

Fits(x) == INT_MIN <= x /\ x <= INT_MAX
Wrap(x) == ((x - INT_MIN) % (2 ^ IntBits)) + INT_MIN

\* station_q * (num_stations - 1) - (station_q - 1) * station_q / 2 +
\* station_p - station_q - 1, operation by operation in C's order: steps are
\* the values of the operations before they are brought into int.
IntIndex(num_stations, station_q, station_p) ==
    LET a1 == num_stations - 1
        a2 == station_q * Wrap(a1)
        a3 == station_q - 1
        a4 == Wrap(a3) * station_q
        a5 == CDiv(Wrap(a4), 2)
        a6 == Wrap(a2) - Wrap(a5)
        a7 == Wrap(a6) + station_p
        a8 == Wrap(a7) - station_q
        a9 == Wrap(a8) - 1
    IN  [made |-> TRUE, steps |-> <<a1, a2, a3, a4, a5, a6, a7, a8, a9>>,
         value |-> Wrap(a9)]

\* num_stations * (num_stations - 1), likewise.
IntDivisor(num_stations) ==
    LET a1 == num_stations - 1
        a2 == num_stations * Wrap(a1)
    IN  [made |-> TRUE, steps |-> <<a1, a2>>, value |-> Wrap(a2)]

\* Some operation of the computation left the range of int.
Overflowed(computation) ==
    \E j \in 1..Len(computation.steps) : ~Fits(computation.steps[j])

\* The station counts whose number of baselines is an int.
StationCounts == {n \in 2..(2 ^ IntBits) : Fits(NumBaselines(n))}

WdInit ==
    /\ IxIdle
    /\ CorIdle
    /\ BmIdle
    /\ StIdle
    /\ wd_pc = "walk"
    /\ wd_num_stations \in StationCounts
    /\ wd_q = 0
    /\ wd_p = 1
    /\ wd_last = NoComputation
    /\ wd_div = NoComputation

\* The beam kernel's divisor is computed.
WdDivisor ==
    /\ wd_pc = "walk"
    /\ ~wd_div.made
    /\ wd_div' = IntDivisor(wd_num_stations)
    /\ wd_pc' \in IF Overflowed(wd_div') THEN {"walk", "trap"} ELSE {"walk"}
    /\ UNCHANGED <<wd_num_stations, wd_q, wd_p, wd_last>>
    /\ UNCHANGED nonwdvars

\* One pass of the correlator's inner loop body: i is computed for
\* (station_q, station_p); ++station_p.
WdBaseline ==
    /\ wd_pc = "walk"
    /\ wd_q < wd_num_stations
    /\ wd_p < wd_num_stations
    /\ wd_last' = IntIndex(wd_num_stations, wd_q, wd_p)
    /\ wd_p' = wd_p + 1
    /\ wd_pc' \in IF Overflowed(wd_last') THEN {"walk", "trap"} ELSE {"walk"}
    /\ UNCHANGED <<wd_num_stations, wd_q, wd_div>>
    /\ UNCHANGED nonwdvars

\* station_p >= num_stations: ++station_q, station_p = station_q + 1.
WdNextStation ==
    /\ wd_pc = "walk"
    /\ wd_q < wd_num_stations
    /\ wd_p >= wd_num_stations
    /\ wd_q' = wd_q + 1
    /\ wd_p' = wd_q + 2
    /\ UNCHANGED <<wd_pc, wd_num_stations, wd_last, wd_div>>
    /\ UNCHANGED nonwdvars

WdNext == WdDivisor \/ WdBaseline \/ WdNextStation

SpecWidth == WdInit /\ [][WdNext]_vars

\* C17: for every num_stations >= 2 whose number of baselines is an int, no
\* operation of the index expression or of the beam divisor leaves the range
\* of int, and the computed index is the mathematical one.
C17_NoWrapAround ==
    /\ wd_div.made => ~Overflowed(wd_div)
    /\ wd_last.made =>
        /\ ~Overflowed(wd_last)
        /\ wd_last.value = VisIndex(wd_num_stations, wd_q, wd_p - 1)

\* What holds instead: the computations stay in range while
\* num_stations * (num_stations - 1) itself is an int, twice the claimed range
\* of baseline counts.
C17_ExactWhileDivisorFits ==
    Fits(wd_num_stations * (wd_num_stations - 1)) =>
        /\ wd_pc # "trap"
        /\ wd_div.made =>
               (~Overflowed(wd_div) /\ wd_div.value = wd_num_stations * (wd_num_stations - 1))
        /\ wd_last.made =>
            /\ ~Overflowed(wd_last)
            /\ wd_last.value = VisIndex(wd_num_stations, wd_q, wd_p - 1)

\* A station count with an int number of baselines for which the index
\* computed with wrap-around is not the baseline's index.
C17_WrongIndex ==
    /\ wd_pc = "walk"
    /\ wd_last.made
    /\ Fits(NumBaselines(wd_num_stations))
    /\ wd_last.value # VisIndex(wd_num_stations, wd_q, wd_p - 1)

C17_DivisorOverflows ==
    /\ wd_div.made
    /\ Overflowed(wd_div)
    /\ wd_div.value < 0

=============================================================================
